---- MODULE Spec2Model ----
(***************************************************************************)
(* Model of the weather widget of src/src/App.jsx: the orchestration state *)
(* of the App component (query, unit, place, wx, loading, error), its      *)
(* three handlers (searchCity, useMyLocation, the unit effect) and the     *)
(* continuations of their awaited requests.  Every await is a suspension   *)
(* point: the code before it and the code after it are separate steps, and *)
(* steps of different handler invocations interleave freely.               *)
(***************************************************************************)
EXTENDS Integers, Sequences, FiniteSets, TLC

\* ---------------------------------------------------------------- bounds
MaxActions == 2      \* handler invocations that suspend on a request
MaxCode == 100       \* condition codes run from -1 to MaxCode
MaxDays == 6         \* a daily forecast has 0..MaxDays entries

\* ------------------------------------------------------------- constants
GridSize == 5        \* slice(0, 5)

\* ------------------------------------------------------------ value sets
Null == [null |-> TRUE]

\* what the search box can hold: strings as sequences of characters
Queries == { <<>>, <<" ", " ">>, <<" ", "o", " ">> }

Units == {"fahrenheit", "celsius"}

Orlando == [name |-> "Orlando", country_code |-> "US", latitude |-> 28, longitude |-> -81]
Paris == [name |-> "Paris", country_code |-> "", latitude |-> 49, longitude |-> 2]

NoData == [hasResults |-> FALSE, results |-> <<>>]

\* the parsed body of a geocoding response: the results key may be missing,
\* and the list may be empty or hold more than the one entry asked for
GeoBodies ==
  { NoData,
    [hasResults |-> TRUE, results |-> <<>>],
    [hasResults |-> TRUE, results |-> <<Orlando>>],
    [hasResults |-> TRUE, results |-> <<Paris, Orlando>>] }

\* pos.coords of the device
DeviceCoords == { [latitude |-> 60, longitude |-> 25] }

\* what a fetch() can do: resolve with res.ok, resolve with !res.ok, or
\* reject (or res.json() rejects) with an Error whose message may be empty
FetchOutcomes ==
  { [threw |-> FALSE, ok |-> TRUE,  message |-> ""],
    [threw |-> FALSE, ok |-> FALSE, message |-> ""],
    [threw |-> TRUE,  ok |-> FALSE, message |-> "Failed to fetch"],
    [threw |-> TRUE,  ok |-> FALSE, message |-> ""] }

\* the GeolocationPositionError handed to the error callback
PositionErrors == {"User denied Geolocation", ""}

\* ------------------------------------------------------------- variables
VARIABLES query, unit, place, wx, loading, error,   \* the six useState cells
          geolocation,                              \* navigator.geolocation is present
          mounted,                                  \* the first render has committed
          tasks                                     \* handler invocations, suspended or done

vars == <<query, unit, place, wx, loading, error, geolocation, mounted, tasks>>

\* -------------------------------------------------------- pure functions
RECURSIVE TrimStart(_)
TrimStart(s) == IF s # <<>> /\ Head(s) = " " THEN TrimStart(Tail(s)) ELSE s

RECURSIVE TrimEnd(_)
TrimEnd(s) ==
  IF s # <<>> /\ s[Len(s)] = " " THEN TrimEnd(SubSeq(s, 1, Len(s) - 1)) ELSE s

\* variant: the query is tested untrimmed
TrimNothing(s) == s

\* String.prototype.trim
Trim(s) == TrimEnd(TrimStart(s))

\* variant: the wind speed unit does not follow the unit
speedUnitAlwaysMph(u) == "mph"

\* const speedUnit = unit === "fahrenheit" ? "mph" : "kmh"
speedUnit(u) == IF u = "fahrenheit" THEN "mph" ELSE "kmh"

\* the query string of the forecast URL built by fetchWeather
ForecastUrl(lat, lon, u) ==
  [latitude |-> lat, longitude |-> lon,
   temperature_unit |-> u, wind_speed_unit |-> speedUnit(u)]

\* the query string of the geocoding URL built by geocodeCity
GeocodingUrl(name) == [name |-> name, count |-> 1, language |-> "en"]

\* what the forecast service measures at a latitude: a condition code, a
\* temperature in tenths of a degree Celsius, a wind speed in tenths of a
\* km/h, and the number of days it forecasts
Measured(lat) ==
  [weather_code |-> IF lat = 28 THEN 0 ELSE IF lat = 49 THEN 61 ELSE 4,
   temperature |-> 300 - 4 * lat,
   wind |-> 3 * lat,
   days |-> IF lat = 28 THEN 7 ELSE IF lat = 49 THEN 5 ELSE 3]

\* temperature_unit=...: the service converts, the client never does
InTemperatureUnit(t, u) == IF u = "fahrenheit" THEN (t * 9) \div 5 + 320 ELSE t

\* wind_speed_unit=...
InSpeedUnit(v, su) == IF su = "mph" THEN (v * 10) \div 16 ELSE v

\* the current object of a forecast response; time is in minutes of the day
CurrentData(req) ==
  LET m == Measured(req.latitude)
  IN  [time |-> 870,
       temperature_2m |-> InTemperatureUnit(m.temperature, req.temperature_unit),
       apparent_temperature |-> InTemperatureUnit(m.temperature - 15, req.temperature_unit),
       relative_humidity_2m |-> 40,
       wind_speed_10m |-> InSpeedUnit(m.wind, req.wind_speed_unit),
       weather_code |-> m.weather_code]

\* the daily object of a forecast response: parallel arrays of equal length;
\* a date is the number of its day since 1970-01-01
DailyData(req) ==
  LET m == Measured(req.latitude)
  IN  [time |-> [i \in 1..m.days |-> 20000 + i],
       weather_code |-> [i \in 1..m.days |-> m.weather_code],
       temperature_2m_max |-> [i \in 1..m.days |->
                                InTemperatureUnit(m.temperature + 10 * i, req.temperature_unit)],
       temperature_2m_min |-> [i \in 1..m.days |->
                                InTemperatureUnit(m.temperature - 10 * i, req.temperature_unit)]]

\* the forecast service answers for the coordinates and units it was asked
ForecastData(req) ==
  [latitude |-> req.latitude, longitude |-> req.longitude,
   temperature_unit |-> req.temperature_unit,
   wind_speed_unit |-> req.wind_speed_unit,
   current |-> CurrentData(req),
   daily |-> DailyData(req)]

Throw(msg) == [threw |-> TRUE, message |-> msg, value |-> Null]
Return(v) == [threw |-> FALSE, message |-> "", value |-> v]

\* variant: the catch block ignores err.message
ErrMsgFallbackOnly(message, fallback) == fallback

\* variant: the catch block has no fallback
ErrMsgMessageOnly(message, fallback) == message

\* err.message || fallback
ErrMsg(message, fallback) == IF message # "" THEN message ELSE fallback

\* !data?.results?.length is false
HasResults(data) == data.hasResults /\ Len(data.results) # 0

\* variant: the last result is taken instead of the first
PickLast(results) ==
  LET r == results[Len(results)]
  IN  [name |-> r.name, country |-> r.country_code, lat |-> r.latitude, lon |-> r.longitude]

\* const r = data.results[0]; return { name, country, lat, lon }
PickResult(results) ==
  LET r == results[1]
  IN  [name |-> r.name, country |-> r.country_code, lat |-> r.latitude, lon |-> r.longitude]

\* geocodeCity after its fetch has settled
geocodeCity(res, data) ==
  IF res.threw THEN Throw(res.message)
  ELSE IF ~res.ok THEN Throw("Geocoding failed")
  ELSE IF ~HasResults(data) THEN Throw("No results for that city")
  ELSE Return(PickResult(data.results))

\* variant: latitude and longitude change places
MyLocationSwapped(lat, lon) ==
  [name |-> "My location", country |-> "", lat |-> lon, lon |-> lat]

\* setPlace({ name: "My location", country: "", lat, lon })
MyLocation(lat, lon) == [name |-> "My location", country |-> "", lat |-> lat, lon |-> lon]

\* fetchWeather after its fetch has settled
fetchWeather(res, req) ==
  IF res.threw THEN Throw(res.message)
  ELSE IF ~res.ok THEN Throw("Weather fetch failed")
  ELSE Return(ForecastData(req))

\* ------------------------------------------------------------- rendering
\* const WMO = {...}: condition code -> {label, emoji}; an emoji is written
\* by its Unicode name
WMO ==
  0 :> [label |-> "Clear", emoji |-> "sun"] @@
  1 :> [label |-> "Mainly clear", emoji |-> "sun behind small cloud"] @@
  2 :> [label |-> "Partly cloudy", emoji |-> "sun behind cloud"] @@
  3 :> [label |-> "Overcast", emoji |-> "cloud"] @@
  45 :> [label |-> "Fog", emoji |-> "fog"] @@
  48 :> [label |-> "Depositing rime fog", emoji |-> "fog"] @@
  51 :> [label |-> "Light drizzle", emoji |-> "sun behind rain cloud"] @@
  53 :> [label |-> "Drizzle", emoji |-> "sun behind rain cloud"] @@
  55 :> [label |-> "Heavy drizzle", emoji |-> "cloud with rain"] @@
  56 :> [label |-> "Light freezing drizzle", emoji |-> "cloud with rain"] @@
  57 :> [label |-> "Freezing drizzle", emoji |-> "cloud with rain"] @@
  61 :> [label |-> "Light rain", emoji |-> "cloud with rain"] @@
  63 :> [label |-> "Rain", emoji |-> "cloud with rain"] @@
  65 :> [label |-> "Heavy rain", emoji |-> "cloud with rain"] @@
  66 :> [label |-> "Freezing rain", emoji |-> "cloud with rain"] @@
  67 :> [label |-> "Heavy freezing rain", emoji |-> "cloud with rain"] @@
  71 :> [label |-> "Light snow", emoji |-> "cloud with snow"] @@
  73 :> [label |-> "Snow", emoji |-> "cloud with snow"] @@
  75 :> [label |-> "Heavy snow", emoji |-> "snowflake"] @@
  77 :> [label |-> "Snow grains", emoji |-> "snowflake"] @@
  80 :> [label |-> "Light showers", emoji |-> "sun behind rain cloud"] @@
  81 :> [label |-> "Showers", emoji |-> "sun behind rain cloud"] @@
  82 :> [label |-> "Heavy showers", emoji |-> "cloud with rain"] @@
  85 :> [label |-> "Snow showers", emoji |-> "cloud with snow"] @@
  86 :> [label |-> "Heavy snow showers", emoji |-> "snowflake"] @@
  95 :> [label |-> "Thunderstorm", emoji |-> "cloud with lightning and rain"] @@
  96 :> [label |-> "Thunderstorm + hail", emoji |-> "cloud with lightning and rain"] @@
  99 :> [label |-> "Thunderstorm + heavy hail", emoji |-> "cloud with lightning and rain"]

\* variant: a code that is not in the table is described as code 0
describeAsClear(code, fallback) ==
  IF code \in DOMAIN WMO THEN WMO[code] ELSE WMO[0]

\* WMO[code]?.label || fallback.label, WMO[code]?.emoji || fallback.emoji
describe(code, fallback) ==
  IF code \in DOMAIN WMO
    THEN [label |-> IF WMO[code].label # "" THEN WMO[code].label ELSE fallback.label,
          emoji |-> IF WMO[code].emoji # "" THEN WMO[code].emoji ELSE fallback.emoji]
    ELSE fallback

\* the literals after || in the current-conditions block
CurrentFallback == [label |-> "Current conditions", emoji |-> "sun behind small cloud"]

\* the literals after || in a forecast card
DayFallback == [label |-> "-", emoji |-> "sun behind cloud"]

\* const tempSuffix = unit === "fahrenheit" ? "°F" : "°C"
tempSuffix(u) == IF u = "fahrenheit" THEN "deg F" ELSE "deg C"

\* Math.round of a value given in tenths: the nearest integer, halves upwards
Round(tenths) == (tenths + 5) \div 10

\* formatTime(iso): hour and minute of a time given in minutes of the day
formatTime(t) == <<t \div 60, t % 60>>

\* formatDay(iso): new Date("YYYY-MM-DD") is midnight UTC of that day, and
\* toLocaleDateString names the weekday it falls on in the viewer's time
\* zone: the day before when the viewer is west of Greenwich
formatDay(date, west) ==
  <<"Thu", "Fri", "Sat", "Sun", "Mon", "Tue", "Wed">>[((date - (IF west THEN 1 ELSE 0)) % 7) + 1]

\* the block under the title: loading ? ... : current ? ... : ...
CurrentBlock(w, ld, u) ==
  IF ld THEN [shows |-> "Loading..."]
  ELSE IF w # Null
    THEN LET current == w.current
         IN  [shows |-> "conditions",
              emoji |-> describe(current.weather_code, CurrentFallback).emoji,
              temperature |-> <<Round(current.temperature_2m), tempSuffix(u)>>,
              label |-> describe(current.weather_code, CurrentFallback).label,
              feels |-> <<Round(current.apparent_temperature), tempSuffix(u)>>,
              humidity |-> current.relative_humidity_2m,
              wind |-> <<Round(current.wind_speed_10m), speedUnit(u)>>,
              updated |-> formatTime(current.time)]
    ELSE [shows |-> "Search a city or use your location to see the weather."]

\* Array.prototype.slice(0, end)
Slice(a, end) == SubSeq(a, 1, IF Len(a) < end THEN Len(a) ELSE end)

\* variant: the card of entry i is built from the last entry
DayCardOfLast(daily, i, u, west) ==
  LET n == Len(daily.time)
  IN  [day |-> formatDay(daily.time[n], west),
       emoji |-> describe(daily.weather_code[n], DayFallback).emoji,
       label |-> describe(daily.weather_code[n], DayFallback).label,
       max |-> <<Round(daily.temperature_2m_max[n]), tempSuffix(u)>>,
       min |-> <<Round(daily.temperature_2m_min[n]), tempSuffix(u)>>]

\* one card of the forecast grid: the body of map((date, i) => ...), with
\* i counted from 1
DayCard(daily, i, u, west) ==
  [day |-> formatDay(daily.time[i], west),
   emoji |-> describe(daily.weather_code[i], DayFallback).emoji,
   label |-> describe(daily.weather_code[i], DayFallback).label,
   max |-> <<Round(daily.temperature_2m_max[i]), tempSuffix(u)>>,
   min |-> <<Round(daily.temperature_2m_min[i]), tempSuffix(u)>>]

\* daily?.time?.slice(0, 5).map(...) || "No forecast yet.": not conditioned
\* on loading
ForecastGrid(w, u, west) ==
  IF w = Null
    THEN [shows |-> "No forecast yet.", cards |-> <<>>]
    ELSE [shows |-> "cards",
          cards |-> [i \in DOMAIN Slice(w.daily.time, GridSize) |-> DayCard(w.daily, i, u, west)]]

\* ------------------------------------------------------------ task state
InFlight == {i \in DOMAIN tasks : tasks[i].pc # "done"}

\* the frame of a handler invocation at its first suspension: its closure's
\* unit, its locals, the request it waits for (req) and the requests it has
\* issued so far (sent); place0 and wx0 are place and wx as it found them
NewTask(k, at, u, api, rq) ==
  [kind |-> k, pc |-> at, unit |-> u, p |-> Null, req |-> rq, sent |-> <<api>>,
   solo |-> (InFlight = {}), place0 |-> place, wx0 |-> wx]

\* a handler ran while these invocations were suspended: they no longer
\* count as having run alone (solo)
Overlapped(ts) ==
  [i \in DOMAIN ts |-> IF ts[i].pc # "done" THEN [ts[i] EXCEPT !.solo = FALSE] ELSE ts[i]]

\* a handler invocation suspends on its first request
Start(t) == Append(Overlapped(tasks), t)

\* the requests of one kind issued by the invocations ts
Issued(ts, api) ==
  Cardinality(UNION {{<<i, j>> : j \in {k \in DOMAIN ts[i].sent : ts[i].sent[k] = api}} :
                       i \in DOMAIN ts})

\* an invocation that has returned keeps no locals
Finished(t, o) ==
  [kind |-> t.kind, pc |-> "done", outcome |-> o, sent |-> t.sent, solo |-> t.solo]

\* ------------------------------------------------------------------ Init
Init ==
  /\ query = <<>>
  /\ unit = "fahrenheit"
  /\ place = Null
  /\ wx = Null
  /\ loading = FALSE
  /\ error = ""
  /\ geolocation \in BOOLEAN
  /\ mounted = FALSE
  /\ tasks = <<>>

\* --------------------------------------------------------------- actions
\* onChange={(e) => setQuery(e.target.value)}
setQuery(q) ==
  /\ mounted
  /\ query' = q
  /\ UNCHANGED <<unit, place, wx, loading, error, geolocation, mounted, tasks>>

\* variant: searchCity also returns early while loading
NothingToSearchOrBusy(q) == Trim(q) = <<>> \/ loading

\* if (!query.trim()) return
NothingToSearch(q) == Trim(q) = <<>>

\* searchCity up to its first await
searchCity ==
  /\ mounted
  /\ error' = ""
  /\ IF NothingToSearch(query)
       THEN /\ tasks' = Overlapped(tasks)
            /\ UNCHANGED loading
       ELSE /\ Len(tasks) < MaxActions
            /\ loading' = TRUE
            /\ tasks' = Start(NewTask("search", "geocode", unit, "geocoding",
                                      GeocodingUrl(Trim(query))))
  /\ UNCHANGED <<query, unit, place, wx, geolocation, mounted>>

\* searchCity resumed after await geocodeCity(...), up to await fetchWeather(...)
searchGeocoded(i, res, data) ==
  /\ tasks[i].kind = "search" /\ tasks[i].pc = "geocode"
  /\ LET g == geocodeCity(res, data)
     IN  IF g.threw
           THEN /\ error' = ErrMsg(g.message, "Something went wrong")
                /\ loading' = FALSE
                /\ tasks' = [tasks EXCEPT ![i] = Finished(@, "error")]
                /\ UNCHANGED place
           ELSE /\ place' = g.value
                /\ tasks' = [tasks EXCEPT ![i].pc = "forecast", ![i].p = g.value,
                                          ![i].req = ForecastUrl(g.value.lat, g.value.lon, tasks[i].unit),
                                          ![i].sent = Append(@, "forecast")]
                /\ UNCHANGED <<loading, error>>
  /\ UNCHANGED <<query, unit, wx, geolocation, mounted>>

\* variant: a failed forecast request is tried once more
searchFetchedRetrying(i, res) ==
  /\ tasks[i].kind = "search" /\ tasks[i].pc = "forecast"
  /\ LET w == fetchWeather(res, tasks[i].req)
     IN  IF w.threw /\ Len(tasks[i].sent) < 3
           THEN /\ tasks' = [tasks EXCEPT ![i].sent = Append(@, "forecast")]
                /\ UNCHANGED <<wx, error, loading>>
           ELSE /\ IF w.threw
                     THEN /\ error' = ErrMsg(w.message, "Something went wrong")
                          /\ tasks' = [tasks EXCEPT ![i] = Finished(@, "error")]
                          /\ UNCHANGED wx
                     ELSE /\ wx' = w.value
                          /\ tasks' = [tasks EXCEPT ![i] = Finished(@, "ok")]
                          /\ UNCHANGED error
                /\ loading' = FALSE
  /\ UNCHANGED <<query, unit, place, geolocation, mounted>>

\* variant: the last continuation of searchCity writes place again
searchFetchedSettingPlace(i, res) ==
  /\ tasks[i].kind = "search" /\ tasks[i].pc = "forecast"
  /\ LET w == fetchWeather(res, tasks[i].req)
     IN  IF w.threw
           THEN /\ error' = ErrMsg(w.message, "Something went wrong")
                /\ tasks' = [tasks EXCEPT ![i] = Finished(@, "error")]
                /\ UNCHANGED <<wx, place>>
           ELSE /\ wx' = w.value
                /\ place' = tasks[i].p
                /\ tasks' = [tasks EXCEPT ![i] = Finished(@, "ok")]
                /\ UNCHANGED error
  /\ loading' = FALSE
  /\ UNCHANGED <<query, unit, geolocation, mounted>>

\* searchCity resumed after await fetchWeather(...)
searchFetched(i, res) ==
  /\ tasks[i].kind = "search" /\ tasks[i].pc = "forecast"
  /\ LET w == fetchWeather(res, tasks[i].req)
     IN  IF w.threw
           THEN /\ error' = ErrMsg(w.message, "Something went wrong")
                /\ tasks' = [tasks EXCEPT ![i] = Finished(@, "error")]
                /\ UNCHANGED wx
           ELSE /\ wx' = w.value
                /\ tasks' = [tasks EXCEPT ![i] = Finished(@, "ok")]
                /\ UNCHANGED error
  /\ loading' = FALSE
  /\ UNCHANGED <<query, unit, place, geolocation, mounted>>

\* useMyLocation up to the return of getCurrentPosition
useMyLocation ==
  /\ mounted
  /\ IF ~geolocation
       THEN /\ error' = "Geolocation not supported"
            /\ tasks' = Overlapped(tasks)
            /\ UNCHANGED loading
       ELSE /\ Len(tasks) < MaxActions
            /\ error' = ""
            /\ loading' = TRUE
            /\ tasks' = Start(NewTask("locate", "position", unit, "geolocation", Null))
  /\ UNCHANGED <<query, unit, place, wx, geolocation, mounted>>

\* the success callback of getCurrentPosition, up to await fetchWeather(...)
positionFound(i, coords) ==
  /\ tasks[i].kind = "locate" /\ tasks[i].pc = "position"
  /\ tasks' = [tasks EXCEPT ![i].pc = "forecast",
                            ![i].p = [lat |-> coords.latitude, lon |-> coords.longitude],
                            ![i].req = ForecastUrl(coords.latitude, coords.longitude, tasks[i].unit),
                            ![i].sent = Append(@, "forecast")]
  /\ UNCHANGED <<query, unit, place, wx, loading, error, geolocation, mounted>>

\* variant: the error callback leaves loading as it is
positionFailedKeepingLoading(i, message) ==
  /\ tasks[i].kind = "locate" /\ tasks[i].pc = "position"
  /\ error' = ErrMsg(message, "Location permission denied")
  /\ tasks' = [tasks EXCEPT ![i] = Finished(@, "error")]
  /\ UNCHANGED <<query, unit, place, wx, loading, geolocation, mounted>>

\* the error callback of getCurrentPosition
positionFailed(i, message) ==
  /\ tasks[i].kind = "locate" /\ tasks[i].pc = "position"
  /\ loading' = FALSE
  /\ error' = ErrMsg(message, "Location permission denied")
  /\ tasks' = [tasks EXCEPT ![i] = Finished(@, "error")]
  /\ UNCHANGED <<query, unit, place, wx, geolocation, mounted>>

\* the success callback resumed after await fetchWeather(lat, lon)
locationFetched(i, res) ==
  /\ tasks[i].kind = "locate" /\ tasks[i].pc = "forecast"
  /\ LET w == fetchWeather(res, tasks[i].req)
     IN  IF w.threw
           THEN /\ error' = ErrMsg(w.message, "Failed to fetch weather")
                /\ tasks' = [tasks EXCEPT ![i] = Finished(@, "error")]
                /\ UNCHANGED <<wx, place>>
           ELSE /\ wx' = w.value
                /\ place' = MyLocation(tasks[i].p.lat, tasks[i].p.lon)
                /\ tasks' = [tasks EXCEPT ![i] = Finished(@, "ok")]
                /\ UNCHANGED error
  /\ loading' = FALSE
  /\ UNCHANGED <<query, unit, geolocation, mounted>>

\* variant: the effect sets loading before it tests place
unitEffectLoadingFirst(u) ==
  /\ loading' = TRUE
  /\ IF place = Null
       THEN tasks' = Overlapped(tasks)
       ELSE /\ Len(tasks) < MaxActions
            /\ tasks' = Start(NewTask("unit", "forecast", u, "forecast",
                                      ForecastUrl(place.lat, place.lon, u)))

\* the effect on [unit], with unit = u, up to await fetchWeather(place.lat, place.lon)
unitEffect(u) ==
  IF place = Null
    THEN /\ tasks' = Overlapped(tasks)
         /\ UNCHANGED loading
    ELSE /\ Len(tasks) < MaxActions
         /\ loading' = TRUE
         /\ tasks' = Start(NewTask("unit", "forecast", u, "forecast",
                                   ForecastUrl(place.lat, place.lon, u)))

\* Toggle's onClick={() => setUnit(u)}: a click on the unit already chosen
\* changes no state and runs no effect
setUnit(u) ==
  /\ mounted
  /\ IF u = unit
       THEN UNCHANGED <<unit, loading, tasks>>
       ELSE /\ unit' = u
            /\ unitEffect(u)
  /\ UNCHANGED <<query, place, wx, error, geolocation, mounted>>

\* variant: the component asks for the device's position when it mounts
mountLocating ==
  /\ ~mounted
  /\ mounted' = TRUE
  /\ loading' = TRUE
  /\ tasks' = Start(NewTask("locate", "position", unit, "geolocation", Null))
  /\ UNCHANGED <<query, unit, place, wx, error, geolocation>>

\* the first render commits and the effect on [unit] runs for the first
\* time; no handler runs before that
mount ==
  /\ ~mounted
  /\ mounted' = TRUE
  /\ unitEffect(unit)
  /\ UNCHANGED <<query, unit, place, wx, error, geolocation>>

\* variant: a successful refetch clears error
unitFetchedClearingError(i, res) ==
  /\ tasks[i].kind = "unit" /\ tasks[i].pc = "forecast"
  /\ LET w == fetchWeather(res, tasks[i].req)
     IN  IF w.threw
           THEN /\ error' = ErrMsg(w.message, "Failed to refresh weather")
                /\ tasks' = [tasks EXCEPT ![i] = Finished(@, "error")]
                /\ UNCHANGED wx
           ELSE /\ wx' = w.value
                /\ tasks' = [tasks EXCEPT ![i] = Finished(@, "ok")]
                /\ error' = ""
  /\ loading' = FALSE
  /\ UNCHANGED <<query, unit, place, geolocation, mounted>>

\* the unit effect resumed after await fetchWeather(place.lat, place.lon)
unitFetched(i, res) ==
  /\ tasks[i].kind = "unit" /\ tasks[i].pc = "forecast"
  /\ LET w == fetchWeather(res, tasks[i].req)
     IN  IF w.threw
           THEN /\ error' = ErrMsg(w.message, "Failed to refresh weather")
                /\ tasks' = [tasks EXCEPT ![i] = Finished(@, "error")]
                /\ UNCHANGED wx
           ELSE /\ wx' = w.value
                /\ tasks' = [tasks EXCEPT ![i] = Finished(@, "ok")]
                /\ UNCHANGED error
  /\ loading' = FALSE
  /\ UNCHANGED <<query, unit, place, geolocation, mounted>>

Next ==
  \/ mount
  \/ \E q \in Queries : setQuery(q)
  \/ searchCity
  \/ \E i \in DOMAIN tasks, res \in FetchOutcomes :
       \E data \in (IF res.threw \/ ~res.ok THEN {NoData} ELSE GeoBodies) : searchGeocoded(i, res, data)
  \/ \E i \in DOMAIN tasks, res \in FetchOutcomes : searchFetched(i, res)
  \/ useMyLocation
  \/ \E i \in DOMAIN tasks, coords \in DeviceCoords : positionFound(i, coords)
  \/ \E i \in DOMAIN tasks, message \in PositionErrors : positionFailed(i, message)
  \/ \E i \in DOMAIN tasks, res \in FetchOutcomes : locationFetched(i, res)
  \/ \E u \in Units : setUnit(u)
  \/ \E i \in DOMAIN tasks, res \in FetchOutcomes : unitFetched(i, res)

Spec == Init /\ [][Next]_vars

\* -------------------------------------------------------------- fairness
\* a request that is outstanding is answered: the promise of fetch settles,
\* getCurrentPosition calls one of its callbacks, and the continuation runs
Completion ==
  \/ \E i \in DOMAIN tasks, res \in FetchOutcomes :
       \E data \in (IF res.threw \/ ~res.ok THEN {NoData} ELSE GeoBodies) : searchGeocoded(i, res, data)
  \/ \E i \in DOMAIN tasks, res \in FetchOutcomes : searchFetched(i, res)
  \/ \E i \in DOMAIN tasks, coords \in DeviceCoords : positionFound(i, coords)
  \/ \E i \in DOMAIN tasks, message \in PositionErrors : positionFailed(i, message)
  \/ \E i \in DOMAIN tasks, res \in FetchOutcomes : locationFetched(i, res)
  \/ \E i \in DOMAIN tasks, res \in FetchOutcomes : unitFetched(i, res)

\* the handlers on a device that has geolocation and with one city to type:
\* the invocations that issue requests, in every interleaving
FairInit == Init /\ geolocation

FairNext ==
  \/ mount
  \/ setQuery(<<" ", "o", " ">>)
  \/ searchCity
  \/ useMyLocation
  \/ \E u \in Units : setUnit(u)
  \/ Completion

FairSpec == FairInit /\ [][FairNext]_vars /\ WF_vars(Completion)

\* ------------------------------------------------- rendering, on its own
\* The view is a function of wx, loading and unit alone.  RenderSpec drives
\* it through every payload of a bounded family, whatever request produced
\* it: setWx and setLoading are the state setters the handlers call.
Codes == -1..MaxCode

\* a forecast response whose current code is code and whose n daily entries
\* all differ: codes code, code + 1, ..., temperatures in tenths of a degree
Payload(code, n) ==
  [latitude |-> 60, longitude |-> 25,
   temperature_unit |-> "fahrenheit", wind_speed_unit |-> "mph",
   current |-> [time |-> 870, temperature_2m |-> 10 * code + 5,
                apparent_temperature |-> 10 * code - 6,
                relative_humidity_2m |-> 40, wind_speed_10m |-> 74,
                weather_code |-> code],
   daily |-> [time |-> [i \in 1..n |-> 20000 + i],
              weather_code |-> [i \in 1..n |-> code + i - 1],
              temperature_2m_max |-> [i \in 1..n |-> 25 * i - 40],
              temperature_2m_min |-> [i \in 1..n |-> 25 * i - 94]]]

Payloads == { Payload(code, n) : code \in Codes, n \in 0..MaxDays }

RenderInit ==
  /\ query = <<>>
  /\ unit \in Units
  /\ place = MyLocation(60, 25)
  /\ wx = Null
  /\ loading = FALSE
  /\ error = ""
  /\ geolocation = TRUE
  /\ mounted = TRUE
  /\ tasks = <<>>

setWx(w) ==
  /\ wx' = w
  /\ UNCHANGED <<query, unit, place, loading, error, geolocation, mounted, tasks>>

setLoading(b) ==
  /\ loading' = b
  /\ UNCHANGED <<query, unit, place, wx, error, geolocation, mounted, tasks>>

RenderNext ==
  \/ \E w \in Payloads : setWx(w)
  \/ \E b \in BOOLEAN : setLoading(b)

RenderSpec == RenderInit /\ [][RenderNext]_vars

\* ---------------------------------------------------- claim vocabulary
Apis == {"geocoding", "forecast", "geolocation"}

\* a query string that is empty or holds whitespace only
IsBlank(q) == \A k \in DOMAIN q : q[k] = " "

\* this step issues no request
NoneIssued == \A api \in Apis : Issued(tasks', api) = Issued(tasks, api)

\* this step issues exactly one request, of this kind
OneIssued(api) ==
  /\ Issued(tasks', api) = Issued(tasks, api) + 1
  /\ \A other \in Apis \ {api} : Issued(tasks', other) = Issued(tasks, other)

\* invocation i returns in this step
Returns(i, o) ==
  /\ tasks[i].pc # "done"
  /\ tasks'[i].pc = "done"
  /\ tasks'[i].outcome = o

\* a geocoding response that arrived and carries a first result
Found(res, data) == ~res.threw /\ res.ok /\ data.hasResults /\ data.results # <<>>

\* a geocoding response that arrived with the results list missing or empty
NotFound(res, data) == ~res.threw /\ res.ok /\ (~data.hasResults \/ data.results = <<>>)

Arrived(res) == ~res.threw /\ res.ok

\* ------------------------------------------------------------------ C1
\* C1: whenever a searchCity invocation fails (at the geocoding stage or at
\* the forecast stage), error is set, loading is false, and place and wx
\* are what they were when the invocation started.
C1_SearchFailureKeepsPlaceAndPayload ==
  [][\A i \in DOMAIN tasks :
       (tasks[i].kind = "search" /\ Returns(i, "error"))
         => /\ error' # ""
            /\ loading' = FALSE
            /\ place' = tasks[i].place0
            /\ wx' = tasks[i].wx0]_vars

\* ------------------------------------------------------------------ C2
\* C2 as stated: a searchCity while loading is true changes nothing, so no
\* two searches are ever in flight together.
C2_SearchWhileLoadingIgnored ==
  [][(loading /\ searchCity)
       => (UNCHANGED <<query, unit, place, wx, loading, error>> /\ NoneIssued)]_vars

\* C2 amended: a searchCity while loading is true is handled like any other:
\* it clears error and, when the query is not blank, keeps loading true,
\* issues one geocoding request and suspends as a new invocation next to
\* those already in flight.
C2_SearchWhileLoadingProceeds ==
  [][(loading /\ searchCity)
       => /\ error' = ""
          /\ UNCHANGED <<query, unit, place, wx>>
          /\ ~IsBlank(query)
               => /\ loading'
                  /\ OneIssued("geocoding")
                  /\ Len(tasks') = Len(tasks) + 1
                  /\ tasks'[Len(tasks')].kind = "search"
                  /\ tasks'[Len(tasks')].pc = "geocode"
                  /\ \A i \in InFlight : tasks'[i].pc = tasks[i].pc]_vars

\* two searches are in flight at the same time
C2_TwoSearchesInFlight ==
  \E i, j \in InFlight : i # j /\ tasks[i].kind = "search" /\ tasks[j].kind = "search"

\* ------------------------------------------------------------------ C3
\* C3 as stated: submitting a blank query issues no request and leaves all
\* six state cells unchanged.
C3_BlankSubmitChangesNothing ==
  [][(IsBlank(query) /\ searchCity)
       => (UNCHANGED <<query, unit, place, wx, loading, error>> /\ NoneIssued)]_vars

\* C3 amended: submitting a blank query issues no request and leaves query,
\* unit, place, wx and loading unchanged; error is cleared.
C3_BlankSubmitOnlyClearsError ==
  [][(IsBlank(query) /\ searchCity)
       => /\ UNCHANGED <<query, unit, place, wx, loading>>
          /\ NoneIssued
          /\ Len(tasks') = Len(tasks)
          /\ error' = ""]_vars

\* where navigator.geolocation is missing, the error of a search that failed
\* at its forecast has been cleared and no invocation was started since:
\* only a blank submit does that
C3_BlankSubmitClearedError ==
  /\ ~geolocation
  /\ IsBlank(query)
  /\ Len(tasks) = 1
  /\ tasks[1].kind = "search" /\ tasks[1].pc = "done" /\ tasks[1].outcome = "error"
  /\ place # Null
  /\ error = ""
  /\ ~loading

\* ------------------------------------------------------------------ C4
\* C4: a searchCity with a non-blank query that no other handler overlaps
\* sets loading and clears error when it starts; when its geocoding answers
\* with results it asks the forecast for the first result's coordinates;
\* and when the forecast answers it ends with place the first result, wx the
\* forecast for place's coordinates, loading false and error absent.
C4_SoloSearchSucceeds ==
  [][/\ (searchCity /\ ~IsBlank(query)) => (loading' /\ error' = "")
     /\ \A i \in DOMAIN tasks :
          (tasks[i].pc = "geocode" /\ tasks'[i].pc # "geocode" /\ tasks[i].solo)
            => \A res \in FetchOutcomes : \A data \in GeoBodies :
                 (Found(res, data) /\ searchGeocoded(i, res, data))
                   => /\ place' = [name |-> data.results[1].name,
                                   country |-> data.results[1].country_code,
                                   lat |-> data.results[1].latitude,
                                   lon |-> data.results[1].longitude]
                      /\ tasks'[i].p = place'
                      /\ tasks'[i].req.latitude = data.results[1].latitude
                      /\ tasks'[i].req.longitude = data.results[1].longitude
                      /\ loading' /\ error' = ""
     /\ \A i \in DOMAIN tasks :
          (tasks[i].kind = "search" /\ Returns(i, "ok") /\ tasks'[i].solo)
            => /\ place' = tasks[i].p
               /\ wx' # Null
               /\ wx'.latitude = place'.lat /\ wx'.longitude = place'.lon
               /\ loading' = FALSE
               /\ error' = ""]_vars

\* a search that nothing overlapped has succeeded and its result is shown
C4_SoloSearchDone ==
  \E i \in DOMAIN tasks :
    /\ tasks[i].kind = "search" /\ tasks[i].pc = "done"
    /\ tasks[i].outcome = "ok" /\ tasks[i].solo
    /\ InFlight = {}
    /\ place # Null /\ place.name = "Paris"
    /\ wx # Null /\ wx.latitude = place.lat /\ wx.longitude = place.lon
    /\ ~loading /\ error = ""

\* ------------------------------------------------------------------ C5
\* C5: changing the unit while a place is present issues exactly one
\* request, a forecast request for the place's coordinates in the new unit
\* (celsius with kmh, fahrenheit with mph), and no geocoding request.
C5_UnitChangeRefetches ==
  [][\A u \in Units :
       (u # unit /\ place # Null /\ setUnit(u))
         => /\ unit' = u
            /\ OneIssued("forecast")
            /\ Len(tasks') = Len(tasks) + 1
            /\ tasks'[Len(tasks')].sent = <<"forecast">>
            /\ tasks'[Len(tasks')].req =
                 [latitude |-> place.lat, longitude |-> place.lon,
                  temperature_unit |-> u,
                  wind_speed_unit |-> IF u = "celsius" THEN "kmh" ELSE "mph"]]_vars

\* the refetch of a change to celsius is in flight for the place shown
C5_CelsiusRefetchInFlight ==
  \E i \in InFlight :
    /\ tasks[i].kind = "unit"
    /\ unit = "celsius"
    /\ place # Null
    /\ tasks[i].req.latitude = place.lat /\ tasks[i].req.longitude = place.lon
    /\ tasks[i].req.temperature_unit = "celsius"
    /\ tasks[i].req.wind_speed_unit = "kmh"

\* ------------------------------------------------------------------ C6
\* C6: changing the unit while no place is resolved sets unit and nothing
\* else: no request is issued and place, wx, loading and error keep their
\* values.
C6_UnitChangeWithoutPlace ==
  [][\A u \in Units :
       (u # unit /\ place = Null /\ setUnit(u))
         => /\ unit' = u
            /\ NoneIssued
            /\ Len(tasks') = Len(tasks)
            /\ UNCHANGED <<place, wx, loading, error>>]_vars

\* the unit was changed with no place resolved, next to an error notice
C6_CelsiusWithoutPlace ==
  /\ unit = "celsius"
  /\ place = Null /\ wx = Null
  /\ tasks = <<>>
  /\ error = "Geolocation not supported"
  /\ ~loading

\* ------------------------------------------------------------------ C7
\* C7: when the geocoding response of a search arrives with its results
\* list missing or empty, error becomes "No results for that city", loading
\* becomes false, and the invocation returns having issued no forecast
\* request; an invocation that has returned issues nothing further.
C7_NoResults ==
  [][/\ \A i \in DOMAIN tasks :
          (tasks[i].pc = "geocode" /\ tasks'[i].pc # "geocode")
            => \A res \in FetchOutcomes : \A data \in GeoBodies :
                 (NotFound(res, data) /\ searchGeocoded(i, res, data))
                   => /\ error' = "No results for that city"
                      /\ loading' = FALSE
                      /\ NoneIssued
                      /\ tasks'[i].pc = "done"
                      /\ tasks'[i].sent = <<"geocoding">>
     /\ \A i \in DOMAIN tasks :
          tasks[i].pc = "done" => tasks'[i] = tasks[i]]_vars

\* a search has ended on an empty geocoding answer
C7_NoResultsShown ==
  \E i \in DOMAIN tasks :
    /\ tasks[i].kind = "search" /\ tasks[i].pc = "done" /\ tasks[i].outcome = "error"
    /\ tasks[i].sent = <<"geocoding">>
    /\ error = "No results for that city"
    /\ ~loading

\* ------------------------------------------------------------------ C8
\* C8: a useMyLocation whose position lookup and forecast both succeed asks
\* the forecast for the device coordinates, issues no geocoding request,
\* and ends with place = {"My location", "", lat, lon} at those
\* coordinates, wx the forecast for them, and loading false.
C8_MyLocationSucceeds ==
  [][/\ \A i \in DOMAIN tasks :
          (tasks[i].pc = "position" /\ tasks'[i].pc = "forecast")
            => \A coords \in DeviceCoords :
                 positionFound(i, coords)
                   => /\ OneIssued("forecast")
                      /\ tasks'[i].p = [lat |-> coords.latitude, lon |-> coords.longitude]
                      /\ tasks'[i].req.latitude = coords.latitude
                      /\ tasks'[i].req.longitude = coords.longitude
     /\ \A i \in DOMAIN tasks :
          (tasks[i].kind = "locate" /\ Returns(i, "ok"))
            => /\ place' = [name |-> "My location", country |-> "",
                            lat |-> tasks[i].p.lat, lon |-> tasks[i].p.lon]
               /\ wx' # Null
               /\ wx'.latitude = tasks[i].p.lat /\ wx'.longitude = tasks[i].p.lon
               /\ loading' = FALSE
               /\ tasks'[i].sent = <<"geolocation", "forecast">>]_vars

\* the device's position is shown with its forecast
C8_MyLocationShown ==
  \E i \in DOMAIN tasks :
    /\ tasks[i].kind = "locate" /\ tasks[i].pc = "done" /\ tasks[i].outcome = "ok"
    /\ InFlight = {}
    /\ place = [name |-> "My location", country |-> "", lat |-> 60, lon |-> 25]
    /\ wx # Null /\ wx.latitude = 60 /\ wx.longitude = 25
    /\ ~loading

\* ------------------------------------------------------------------ C9
\* C9 as stated: every failure of useMyLocation (geolocation missing,
\* position refused, forecast failed) and every failure of the refetch of a
\* unit change sets error, leaves loading false, and leaves place and wx as
\* they were before the action; with geolocation missing no request is
\* issued and loading is never set.
C9_LocationAndUnitFailures ==
  [][/\ \A i \in DOMAIN tasks :
          (tasks[i].kind \in {"locate", "unit"} /\ Returns(i, "error"))
            => /\ error' # ""
               /\ loading' = FALSE
               /\ place' = tasks[i].place0
               /\ wx' = tasks[i].wx0
     /\ (~geolocation /\ useMyLocation)
          => /\ error' # ""
             /\ loading' = FALSE
             /\ UNCHANGED <<place, wx>>
             /\ NoneIssued]_vars

\* C9 amended: the same, for a failure that no other handler overlaps: a
\* failed useMyLocation or unit refetch that ran alone sets error, leaves
\* loading false, and leaves place and wx as they were before it; with
\* geolocation missing, useMyLocation sets error, issues no request and
\* leaves loading, place and wx untouched, so that loading is false after
\* it when nothing else is in flight.
C9_SoloLocationAndUnitFailures ==
  [][/\ \A i \in DOMAIN tasks :
          (tasks[i].kind \in {"locate", "unit"} /\ Returns(i, "error") /\ tasks'[i].solo)
            => /\ error' # ""
               /\ loading' = FALSE
               /\ place' = tasks[i].place0
               /\ wx' = tasks[i].wx0
     /\ (~geolocation /\ useMyLocation)
          => /\ error' # ""
             /\ UNCHANGED <<loading, place, wx>>
             /\ NoneIssued
             /\ Len(tasks') = Len(tasks)
             /\ InFlight = {} => loading' = FALSE]_vars

\* the refetch of a unit change failed on its own and the place and forecast
\* found before it are still shown
C9_SoloRefetchFailed ==
  /\ Len(tasks) = 2
  /\ tasks[1].kind = "locate" /\ tasks[1].pc = "done" /\ tasks[1].outcome = "ok"
  /\ tasks[2].kind = "unit" /\ tasks[2].pc = "done" /\ tasks[2].outcome = "error"
  /\ tasks[2].solo
  /\ error = "Failed to refresh weather"
  /\ ~loading
  /\ place # Null
  /\ wx # Null /\ wx.temperature_unit = "fahrenheit"
  /\ unit = "celsius"

\* ----------------------------------------------------------------- C10
\* C10: error goes from set to absent only in the first step of searchCity
\* or of useMyLocation: no unit change, and no continuation of a request,
\* successful or not, clears it.
C10_OnlyResolversClearError ==
  [][(error # "" /\ error' = "") => (searchCity \/ useMyLocation)]_vars

\* the notice of a failed search is still shown after a unit change whose
\* refetch ran alone and succeeded
C10_ErrorOutlivesRefetch ==
  /\ Len(tasks) = 2
  /\ tasks[1].kind = "search" /\ tasks[1].pc = "done" /\ tasks[1].outcome = "error"
  /\ tasks[2].kind = "unit" /\ tasks[2].pc = "done" /\ tasks[2].outcome = "ok"
  /\ tasks[2].solo
  /\ error = "Weather fetch failed"
  /\ wx # Null
  /\ ~loading

\* C11: while loading is true the view shows the loading indicator and
\* nothing of the payload it still holds: the current-conditions block is
\* replaced by the indicator and the forecast grid has no card.
C11_LoadingHidesStalePayload ==
  loading =>
    /\ CurrentBlock(wx, loading, unit).shows = "Loading..."
    /\ \A west \in BOOLEAN : ForecastGrid(wx, unit, west).cards = <<>>

\* a step of invocation i: one of its continuations ran
Resumed(i) == tasks[i].pc # "done" /\ tasks'[i].pc # tasks[i].pc

\* invocation i is the last one in flight, and an invocation that started
\* after it has already returned
LastOfOverlap(i) ==
  InFlight = {i} /\ \E j \in DOMAIN tasks : j > i /\ tasks[j].pc = "done"

\* C12 (as stated): when overlapping actions have all completed, place,
\* payload and error hold what the action that resolved last wrote: for a
\* search or a location request that succeeds last, its own place, its own
\* forecast and the error it cleared.
C12_LastResolvedWins ==
  [][\A i \in DOMAIN tasks :
       (LastOfOverlap(i) /\ tasks[i].kind \in {"search", "locate"} /\ Returns(i, "ok")) =>
         /\ wx' = ForecastData(tasks[i].req)
         /\ place'.lat = tasks[i].req.latitude /\ place'.lon = tasks[i].req.longitude
         /\ error' = ""]_vars

\* C12 (amended): overlapping actions are never cancelled and the last
\* write wins variable by variable.  A continuation of one invocation
\* leaves every other invocation as it is; when an overlapped invocation
\* returns, loading is false, and on success payload is its own forecast,
\* place is its own only for a location request, and error is left as it
\* was; on failure error is its message and place and payload are left as
\* they were.
C12_LastWriteWinsPerVariable ==
  [][\A i \in DOMAIN tasks :
       (Resumed(i) /\ ~tasks[i].solo) =>
         /\ Len(tasks') = Len(tasks)
         /\ \A j \in DOMAIN tasks \ {i} : tasks'[j] = tasks[j]
         /\ Returns(i, "ok") =>
              /\ ~loading'
              /\ wx' = ForecastData(tasks[i].req)
              /\ error' = error
              /\ place' = IF tasks[i].kind = "locate"
                             THEN MyLocation(tasks[i].req.latitude, tasks[i].req.longitude)
                             ELSE place
         /\ Returns(i, "error") =>
              /\ ~loading'
              /\ error' # ""
              /\ wx' = wx /\ place' = place]_vars

\* a search and a location request overlapped and both succeeded: the place
\* is the location request's, the payload the search's
C12_PlaceOfOnePayloadOfOther ==
  /\ Len(tasks) = 2
  /\ \A i \in DOMAIN tasks : tasks[i].pc = "done" /\ tasks[i].outcome = "ok" /\ ~tasks[i].solo
  /\ {tasks[i].kind : i \in DOMAIN tasks} = {"search", "locate"}
  /\ place.name = "My location"
  /\ wx.latitude = 28

\* the codes the table maps
MappedCodes ==
  {0, 1, 2, 3, 45, 48, 51, 53, 55, 56, 57, 61, 63, 65, 66, 67,
   71, 73, 75, 77, 80, 81, 82, 85, 86, 95, 96, 99}

\* what is shown for code c where the fallback label is fb: the table's
\* entry for a mapped code, the fallback otherwise
Described(shown, c, fb) ==
  /\ c \in MappedCodes => shown.label = WMO[c].label /\ shown.emoji = WMO[c].emoji
  /\ c = 0 => shown.label = "Clear"
  /\ c \notin MappedCodes => shown.label = fb

\* C13: the condition-code lookup is total.  For every code of a payload,
\* mapped or not, the current-conditions block and every forecast card show
\* the table's label and icon when the code is mapped (0 gives "Clear") and
\* the fallback of their context otherwise: "Current conditions" for the
\* block, the dash for a card.
C13_LookupTotal ==
  wx # Null =>
    /\ ~loading => Described(CurrentBlock(wx, loading, unit), wx.current.weather_code,
                             "Current conditions")
    /\ \A west \in BOOLEAN :
         LET cards == ForecastGrid(wx, unit, west).cards
         IN  \A i \in DOMAIN cards : Described(cards[i], wx.daily.weather_code[i], "-")

\* a payload whose current code -1 is unmapped, whose first day is unmapped
\* and whose second day is code 0
C13_UnmappedAndMappedShown ==
  /\ wx # Null /\ ~loading
  /\ wx.current.weather_code = -1
  /\ CurrentBlock(wx, loading, unit).label = "Current conditions"
  /\ Len(wx.daily.time) >= 2
  /\ ForecastGrid(wx, unit, FALSE).cards[1].label = "-"
  /\ ForecastGrid(wx, unit, FALSE).cards[2].label = "Clear"

\* C14: for a daily payload with n entries the forecast grid has exactly
\* min(n, 5) cards, and card i is built from entry i of the dates, the
\* weather codes, the maximum and the minimum temperatures, in order.
C14_GridShowsFirstFive ==
  wx # Null =>
    \A west \in BOOLEAN :
      LET cards == ForecastGrid(wx, unit, west).cards
          daily == wx.daily
          n == Len(daily.time)
      IN  /\ Len(cards) = IF n < 5 THEN n ELSE 5
          /\ \A i \in 1..Len(cards) :
               /\ cards[i].day = formatDay(daily.time[i], west)
               /\ cards[i].label = describe(daily.weather_code[i], DayFallback).label
               /\ cards[i].emoji = describe(daily.weather_code[i], DayFallback).emoji
               /\ cards[i].max = <<Round(daily.temperature_2m_max[i]), tempSuffix(unit)>>
               /\ cards[i].min = <<Round(daily.temperature_2m_min[i]), tempSuffix(unit)>>

\* a payload with three daily entries shows three cards
C14_ThreeDaysThreeCards ==
  /\ wx # Null
  /\ Len(wx.daily.time) = 3
  /\ Len(ForecastGrid(wx, unit, FALSE).cards) = 3
  /\ ForecastGrid(wx, unit, FALSE).cards[3].max[1] = 4

\* C15: the component starts with query empty, unit Fahrenheit, no place,
\* no payload, loading false and no error, and mounting it issues no
\* request: until the first handler runs, the state is the initial one and
\* no invocation is in flight.
C15_InitialStateAndQuietMount ==
  [][~mounted =>
       /\ query = <<>> /\ unit = "fahrenheit" /\ place = Null /\ wx = Null
       /\ ~loading /\ error = "" /\ tasks = <<>>
       /\ UNCHANGED <<query, unit, place, wx, loading, error>>
       /\ NoneIssued
       /\ tasks' = <<>>]_vars

\* mounted, and nothing has happened yet
C15_MountedAndIdle ==
  /\ mounted
  /\ query = <<>> /\ unit = "fahrenheit" /\ place = Null /\ wx = Null
  /\ ~loading /\ error = "" /\ tasks = <<>>

\* C16: while the request of any invocation (geolocation lookup, geocoding
\* request or forecast request) is outstanding, loading is true, whatever
\* other invocations start and return in the meantime.
C16_LoadingWhileOutstanding == InFlight # {} => loading

\* the number of requests to api that invocation t has issued
IssuedBy(t, api) == Cardinality({k \in DOMAIN t.sent : t.sent[k] = api})

\* C17: within one searchCity the two requests are sequential and never
\* retried.  The forecast request is issued only in the step in which the
\* geocoding request returned a non-empty result, for the coordinates of
\* that result's first entry; when geocoding fails the invocation returns
\* having issued the geocoding request alone; the last step issues nothing;
\* and no invocation of any handler ever holds more than one geocoding or
\* more than one forecast request.
C17_GeocodeThenForecastOnce ==
  [][\A i \in DOMAIN tasks :
       /\ IssuedBy(tasks'[i], "geocoding") <= 1
       /\ IssuedBy(tasks'[i], "forecast") <= 1
       /\ ~Resumed(i) => tasks'[i].sent = tasks[i].sent
       /\ (Resumed(i) /\ tasks[i].kind = "search") =>
            /\ tasks[i].pc = "geocode" =>
                 /\ tasks[i].sent = <<"geocoding">>
                 /\ IF tasks'[i].pc = "forecast"
                      THEN /\ tasks'[i].sent = <<"geocoding", "forecast">>
                           /\ \E res \in FetchOutcomes, data \in GeoBodies :
                                /\ Found(res, data)
                                /\ tasks'[i].req.latitude = data.results[1].latitude
                                /\ tasks'[i].req.longitude = data.results[1].longitude
                                /\ searchGeocoded(i, res, data)
                      ELSE /\ Returns(i, "error")
                           /\ tasks'[i].sent = <<"geocoding">>
                           /\ \A res \in FetchOutcomes, data \in GeoBodies :
                                Found(res, data) => ~searchGeocoded(i, res, data)
            /\ tasks[i].pc = "forecast" =>
                 /\ tasks'[i].pc = "done"
                 /\ tasks'[i].sent = <<"geocoding", "forecast">>]_vars

\* one search went through both requests, another stopped at geocoding
C17_OneBothOneGeocodingOnly ==
  /\ Len(tasks) = 2
  /\ \A i \in DOMAIN tasks : tasks[i].kind = "search" /\ tasks[i].pc = "done"
  /\ tasks[1].sent = <<"geocoding", "forecast">>
  /\ tasks[2].sent = <<"geocoding">> /\ tasks[2].outcome = "error"

\* no request is outstanding and loading is false, or one is outstanding
NotLoadingWhenAnswered == InFlight = {} => ~loading

\* C18: once every outstanding geolocation, geocoding and forecast request
\* has been answered, loading is false; and when outstanding requests keep
\* being answered, loading = true is always followed by loading = false.
C18_LoadingEnds ==
  /\ []NotLoadingWhenAnswered
  /\ (loading ~> ~loading)

\* two overlapping invocations have both returned and loading is false
C18_AllReturned ==
  /\ Len(tasks) = 2
  /\ \A i \in DOMAIN tasks : tasks[i].pc = "done" /\ ~tasks[i].solo
  /\ ~loading

\* C19: whenever no request is outstanding and both place and payload are
\* present, the payload is the forecast response for the coordinates of the
\* place.
C19_PayloadIsOfPlace ==
  (InFlight = {} /\ place # Null /\ wx # Null) =>
    /\ wx.latitude = place.lat
    /\ wx.longitude = place.lon

\* C20: whenever no request is outstanding and a payload is present, the
\* payload was requested with the current unit, so the temperature suffix
\* and the wind-speed unit shown are those of its values.
C20_PayloadIsInUnit ==
  (InFlight = {} /\ wx # Null) =>
    /\ wx.temperature_unit = unit
    /\ wx.wind_speed_unit = speedUnit(unit)


====
